---- MODULE Spec2Model ----
(***************************************************************************)
(* Model of the asset loading pipeline of three-d-asset:                   *)
(*   - RawAssets (src/io/raw_assets.rs): the byte store and its exact /    *)
(*     substring key lookup,                                               *)
(*   - load_async and its helpers (src/io/loader.rs, native build with     *)
(*     the reqwest and data-url features) and get_dependencies (src/io.rs).*)
(* Paths are modelled as sequences of one-character strings, so that       *)
(* ends_with, contains, find and extension are computed, not assumed.      *)
(***************************************************************************)
EXTENDS Integers, Sequences, FiniteSets, TLC

VARIABLES
    \* ---- RawAssets under direct use (get / remove / insert / extend) ----
    store,            \* the HashMap<PathBuf, Vec<u8>> of one RawAssets value
    last,             \* the last store operation: its arguments, its result, the map before it
    \* ---- the world a load runs against ----
    paths,            \* the argument of load_async (the requested paths)
    refs,             \* what the format parsers find in the bytes of each scene file
    missing,          \* the sources whose fetch can fail (missing file, failing request)
    corrupt,          \* the scene files whose bytes the format parser rejects
    bodies,           \* url -> the bytes its server answers with, where the content matters
    peer_tasks,       \* the url tasks of another load_urls call running in the same process
    peer_connections, \* that call's map host -> free permits
    \* ---- load_async ----
    pc,               \* position of load_async: "single", "join", "done"
    batch,            \* the paths handed to the next / current load_async_single
    round,            \* number of calls of load_async_single so far (instrumentation)
    raw_assets,       \* load_async's accumulated raw_assets (<<>> before the first round returns)
    urls_assets,      \* load_urls' raw_assets of the current round
    disk_assets,      \* load_from_disk's raw_assets of the current round
    url_tasks,        \* the JoinSet of load_urls: url -> task state
    disk_tasks,       \* the JoinSet of load_from_disk: path -> task state
    host_connections, \* load_urls' map host -> free permits of that host's semaphore
    fetches,          \* per key, how often a fetch of it was issued (instrumentation)
    failed,           \* the keys whose fetch has failed so far (instrumentation)
    result            \* what load_async returned, NoResult while it runs

storeVars == <<store, last>>
worldVars == <<paths, refs, missing, corrupt, bodies, peer_tasks, peer_connections>>
loadVars == <<pc, batch, round, raw_assets, urls_assets, disk_assets, url_tasks,
              disk_tasks, host_connections, fetches, failed, result>>
vars == <<store, last, paths, refs, missing, corrupt, bodies, peer_tasks, peer_connections,
          pc, batch, round, raw_assets, urls_assets,
          disk_assets, url_tasks, disk_tasks, host_connections, fetches, failed, result>>

-----------------------------------------------------------------------------
(* Strings: a path is a sequence of characters.                            *)

StartsWith(s, pre) ==
    /\ Len(s) >= Len(pre)
    /\ SubSeq(s, 1, Len(pre)) = pre

EndsWith(s, suf) ==
    /\ Len(s) >= Len(suf)
    /\ SubSeq(s, Len(s) - Len(suf) + 1, Len(s)) = suf

\* the 0-based positions at which pat occurs in s
Occurrences(s, pat) ==
    {i \in 0..(Len(s) - Len(pat)) : SubSeq(s, i + 1, i + Len(pat)) = pat}

\* str::contains
StrContains(s, pat) == Occurrences(s, pat) # {}

\* str::find: the first position of pat in s, -1 for None
Find(s, pat) ==
    IF Occurrences(s, pat) = {} THEN -1
    ELSE CHOOSE i \in Occurrences(s, pat) : \A j \in Occurrences(s, pat) : i <= j

Min(a, b) == IF a <= b THEN a ELSE b

\* Result values
Ok(v) == [ok |-> TRUE, val |-> v]
Err(e) == [ok |-> FALSE, err |-> e]

-----------------------------------------------------------------------------
(* RawAssets: a map from path to bytes, modelled as a function.            *)

EmptyAssets == <<>>

Keys(m) == DOMAIN m

\* the suffixes of the two spellings of the jpeg extension
DotJpeg == <<".", "j", "p", "e", "g">>
DotJpg == <<".", "j", "p", "g">>

\* mutant: no cut of the jpeg extension
ProbeKeepAll(path) == path

\* mutant: one character cut from either spelling
ProbeCutOne(path) ==
    IF EndsWith(path, DotJpeg) \/ EndsWith(path, DotJpg) THEN SubSeq(path, 1, Len(path) - 1)
    ELSE path

\* the string p searched for when the exact lookup fails (same code in get and remove)
Probe(path) ==
    IF EndsWith(path, DotJpeg) THEN SubSeq(path, 1, Len(path) - 2)
    ELSE IF EndsWith(path, DotJpg) THEN SubSeq(path, 1, Len(path) - 1)
    ELSE path

\* the stored keys that iter().find(|k| k.contains(p)) can return; a HashMap iterates
\* in an unspecified order, so any of them can be the first
Candidates(m, p) == {k \in Keys(m) : StrContains(k, p)}

NotLoaded(p) == <<"NotLoaded", p>>

\* mutant: the substring probe is tried before the exact lookup
getProbeFirst(m, path) ==
    LET p == Probe(path) IN
    IF Candidates(m, p) # {} THEN {Ok(m[k]) : k \in Candidates(m, p)}
    ELSE IF path \in Keys(m) THEN {Ok(m[path])}
    ELSE {Err(NotLoaded(p))}

\* RawAssets::get: the set of results the call can produce
get(m, path) ==
    IF path \in Keys(m) THEN {Ok(m[path])}
    ELSE LET p == Probe(path) IN
         IF Candidates(m, p) = {} THEN {Err(NotLoaded(p))}
         ELSE {Ok(m[k]) : k \in Candidates(m, p)}

Without(m, k) == [x \in Keys(m) \ {k} |-> m[x]]

\* mutant: the bytes are returned but the entry stays
removeKeepsEntry(m, path) == {<<r, m>> : r \in get(m, path)}

\* RawAssets::remove: the set of <<result, map afterwards>> the call can produce
remove(m, path) ==
    IF path \in Keys(m) THEN {<<Ok(m[path]), Without(m, path)>>}
    ELSE LET p == Probe(path) IN
         IF Candidates(m, p) = {} THEN {<<Err(NotLoaded(p)), m>>}
         ELSE {<<Ok(m[k]), Without(m, k)>> : k \in Candidates(m, p)}

\* mutant: an entry that exists is kept
insertIfAbsent(m, path, bytes) ==
    [x \in Keys(m) \cup {path} |-> IF x \in Keys(m) THEN m[x] ELSE bytes]

\* RawAssets::insert
insert(m, path, bytes) ==
    [x \in Keys(m) \cup {path} |-> IF x = path THEN bytes ELSE m[x]]

\* mutant: on a shared key the entry of self is kept
extendKeepSelf(self, other) ==
    [x \in Keys(self) \cup Keys(other) |-> IF x \in Keys(self) THEN self[x] ELSE other[x]]

\* RawAssets::extend: every entry of other is inserted into self
extend(self, other) ==
    [x \in Keys(self) \cup Keys(other) |-> IF x \in Keys(other) THEN other[x] ELSE self[x]]

\* HashMap::drain, run to its end, leaves the map it drains empty
Drained(m) == [x \in Keys(m) \ Keys(m) |-> m[x]]

-----------------------------------------------------------------------------
(* The store used directly: SpecStore.                                     *)

TexJpeg == <<"t", "e", "x">> \o DotJpeg
TexJpg == <<"t", "e", "x">> \o DotJpg
UnrelatedJpg == <<"u", "n", "r", "e", "l", "a", "t", "e", "d">> \o DotJpg
DotPng == <<".", "p", "n", "g">>
APng == <<"a">> \o DotPng
DirAPng == <<"b", "/", "a">> \o DotPng

\* the paths entries are stored under
StoreKeys == {TexJpeg, TexJpg, APng, DirAPng}

\* the paths get and remove are called with
Requests == StoreKeys \cup {UnrelatedJpg, DotPng, <<>>}

\* number of distinct byte vectors
MaxBlob == 2

Blobs == {<<b>> : b \in 1..MaxBlob}

\* largest number of entries of the argument of extend
MaxOther == 1

Others ==
    UNION {[S -> Blobs] : S \in {T \in SUBSET StoreKeys : Cardinality(T) <= MaxOther}}

NoOp == [op |-> "new"]

\* no other load runs in the process
NoPeer == peer_tasks = <<>> /\ peer_connections = <<>>

\* RawAssets::new() and an idle loader
InitStore ==
    /\ store = EmptyAssets
    /\ last = NoOp
    /\ paths = {}
    /\ refs = <<>>
    /\ missing = {}
    /\ corrupt = {}
    /\ bodies = <<>>
    /\ NoPeer
    /\ pc = "idle"
    /\ batch = {}
    /\ round = 0
    /\ raw_assets = EmptyAssets
    /\ urls_assets = EmptyAssets
    /\ disk_assets = EmptyAssets
    /\ url_tasks = <<>>
    /\ disk_tasks = <<>>
    /\ host_connections = <<>>
    /\ fetches = <<>>
    /\ failed = {}
    /\ result = [op |-> "none"]

\* mutant: get takes the entry it returns out of the map
GetTakes(path) ==
    /\ \E o \in remove(store, path) :
          /\ last' = [op |-> "get", path |-> path, res |-> o[1], before |-> store]
          /\ store' = o[2]
    /\ UNCHANGED worldVars
    /\ UNCHANGED loadVars

Get(path) ==
    /\ \E r \in get(store, path) :
          last' = [op |-> "get", path |-> path, res |-> r, before |-> store]
    /\ UNCHANGED store
    /\ UNCHANGED worldVars
    /\ UNCHANGED loadVars

Remove(path) ==
    /\ \E o \in remove(store, path) :
          /\ last' = [op |-> "remove", path |-> path, res |-> o[1], before |-> store]
          /\ store' = o[2]
    /\ UNCHANGED worldVars
    /\ UNCHANGED loadVars

Insert(path, bytes) ==
    /\ store' = insert(store, path, bytes)
    /\ last' = [op |-> "insert", path |-> path, bytes |-> bytes, before |-> store]
    /\ UNCHANGED worldVars
    /\ UNCHANGED loadVars

Extend(other) ==
    /\ store' = extend(store, other)
    /\ last' = [op |-> "extend", other |-> other, before |-> store, rest |-> Drained(other)]
    /\ UNCHANGED worldVars
    /\ UNCHANGED loadVars

NextStore ==
    \/ \E path \in Requests : Get(path)
    \/ \E path \in Requests : Remove(path)
    \/ \E path \in StoreKeys, bytes \in Blobs : Insert(path, bytes)
    \/ \E other \in Others : Extend(other)

SpecStore == InitStore /\ [][NextStore]_vars

-----------------------------------------------------------------------------
(* Paths, URLs and the world a load runs against.                          *)

\* is_data_url
is_data_url(path) == StartsWith(path, <<"d", "a", "t", "a", ":">>)

\* mutant: "://" counts wherever it is found
is_absolute_urlAnyPos(path) ==
    \/ Find(path, <<":", "/", "/">>) >= 0
    \/ Find(path, <<"/", "/">>) = 0

\* is_absolute_url
is_absolute_url(path) ==
    \/ Find(path, <<":", "/", "/">>) > 0
    \/ Find(path, <<"/", "/">>) = 0

\* the positions (1-based) of character c in s
Positions(s, c) == {i \in 1..Len(s) : s[i] = c}

Last(S) == CHOOSE i \in S : \A j \in S : j <= i

\* Path::file_name: what follows the last separator
FileName(path) ==
    IF Positions(path, "/") = {} THEN path
    ELSE SubSeq(path, Last(Positions(path, "/")) + 1, Len(path))

\* Path::extension: what follows the last dot of the file name, <<>> for None
\* (no dot, or a file name that only begins with a dot)
Extension(path) ==
    LET name == FileName(path)
        dots == Positions(name, ".")
    IN  IF dots = {} \/ Last(dots) = 1 THEN <<>>
        ELSE SubSeq(name, Last(dots) + 1, Len(name))

\* mutant: one semaphore for all hosts
UrlHostShared(path) == <<"*">>

\* reqwest::Url::parse followed by Url::host: the characters between "://" and the
\* next "/", <<>> when the string has no scheme (parse error) or names no host
UrlHost(path) ==
    LET at == Find(path, <<":", "/", "/">>)
        rest == SubSeq(path, at + 4, Len(path))
    IN  IF at <= 0 THEN <<>>
        ELSE IF Positions(rest, "/") = {} THEN rest
        ELSE SubSeq(rest, 1, Find(rest, <<"/">>))

\* the urls on which the spawn loop of load_urls returns FailedParsingUrl
BadUrl(path) == UrlHost(path) = <<>>

\* mutant: every string that begins with "data:" is decoded
DataUrlOkAlways(path) == is_data_url(path)

\* data_url::DataUrl::process: a data url needs a comma before its payload
DataUrlOk(path) == is_data_url(path) /\ Positions(path, ",") # {}

\* parse_data_url: the payload that follows the first comma
parse_data_url(path) ==
    IF DataUrlOk(path)
    THEN Ok([data |-> SubSeq(path, Find(path, <<",">>) + 2, Len(path))])
    ELSE Err(<<"FailedParsingDataUrl", path>>)

\* mutant: the bytes read depend on how many tasks of the round were joined before
BodyByArrival(path) ==
    [src |-> path, nth |-> Cardinality(DOMAIN urls_assets) + Cardinality(DOMAIN disk_assets)]

\* the bytes a successful read of a file or url returns: sources are stable, so the
\* bytes are identified by the source they come from, and carry their content where
\* the content matters
Body(path) ==
    IF path \in DOMAIN bodies THEN [src |-> path, body |-> bodies[path]] ELSE [src |-> path]

\* the 15 bytes "<!DOCTYPE html>"
HtmlHeader == <<"<", "!", "D", "O", "C", "T", "Y", "P", "E", " ", "h", "t", "m", "l", ">">>

\* what a server may answer with: an html page, the bare header, a payload as long as
\* the header, a payload shorter than the header, nothing
ResponseBodies ==
    { HtmlHeader \o <<"x">>,
      HtmlHeader,
      [i \in 1..Len(HtmlHeader) |-> "g"],
      <<"g", "l", "T", "F">>,
      <<>> }

ExtObj == <<"o", "b", "j">>
ExtMtl == <<"m", "t", "l">>
ExtGlb == <<"g", "l", "b">>
ExtGltf == <<"g", "l", "t", "f">>

KA == <<"a", ".">> \o ExtObj
KB == <<"b", ".">> \o ExtMtl
KC == <<"h", ":", "/", "/", "1", "/", "c", ".">> \o ExtGlb
KD == <<"d", "a", "t", "a", ":", ",", "d">>

\* the keys of the reference graphs explored
GraphKeys == {KA, KB, KC, KD}

SceneKeys == {k \in GraphKeys : Extension(k) \in {ExtObj, ExtMtl, ExtGlb, ExtGltf}}

\* connection limit per host
CONN_PER_HOST == 8

\* number of urls of one host beyond the connection limit
ExtraUrls == 1

Letters == <<"a", "b", "c", "d", "e", "f", "g", "i", "j", "k", "l", "m">>

\* the i-th url of host h (the urls of a host differ in their scheme)
HostUrl(h, i) == <<Letters[i], ":", "/", "/", h>>

\* more urls of host "1" than it has permits
ManyUrls == {HostUrl("1", i) : i \in 1..(CONN_PER_HOST + ExtraUrls)}

\* largest number of references in one file (an obj file names at most one
\* material library)
MaxDeps == 2

\* largest number of requested paths in the reference graph worlds
MaxPaths == 2

\* the round and fetch counters stop counting here
MaxRounds == 5
MaxCount == 2

SmallSubsets(S, n) == {T \in SUBSET S : Cardinality(T) <= n}

RefLimit(k) == IF Extension(k) = ExtObj THEN 1 ELSE MaxDeps

Worlds ==
    {r \in [SceneKeys -> SmallSubsets(GraphKeys, MaxDeps)] :
        \A k \in SceneKeys : Cardinality(r[k]) <= RefLimit(k)}

NoResult == [op |-> "none"]

\* the state in which load_async(paths) is called
LoadCalled ==
    /\ store = EmptyAssets
    /\ last = NoOp
    /\ pc = "single"
    /\ batch = paths
    /\ round = 0
    /\ raw_assets = EmptyAssets
    /\ urls_assets = EmptyAssets
    /\ disk_assets = EmptyAssets
    /\ url_tasks = <<>>
    /\ disk_tasks = <<>>
    /\ host_connections = <<>>
    /\ fetches = <<>>
    /\ failed = {}
    /\ result = NoResult

Init ==
    /\ refs \in Worlds
    /\ paths \in SmallSubsets(GraphKeys, MaxPaths)
    /\ missing = {k \in GraphKeys : ~is_data_url(k)}
    /\ corrupt = {}
    /\ bodies = <<>>
    /\ NoPeer
    /\ LoadCalled

-----------------------------------------------------------------------------
(* get_dependencies and the format parsers' dependency scans.              *)

\* mutant: the references are read from the bytes whether or not they parse
dependenciesUnparsed(m, path) ==
    LET bytes == m[path] IN
    IF "src" \in DOMAIN bytes /\ bytes.src \in DOMAIN refs THEN refs[bytes.src] ELSE {}

\* Gltf::from_slice, wavefront_obj::obj::parse, wavefront_obj::mtl::parse return Ok
Parses(bytes) ==
    /\ "src" \in DOMAIN bytes
    /\ bytes.src \in DOMAIN refs
    /\ bytes.src \notin corrupt

\* gltf::dependencies, obj::dependencies_obj, obj::dependencies_mtl: the paths the
\* parser finds in the bytes stored under path (none if they do not parse)
dependencies(m, path) ==
    LET bytes == m[path] IN
    IF Parses(bytes) THEN refs[bytes.src] ELSE {}

\* RawAssets::contains_key
contains_key(m, path) == path \in Keys(m)

\* mutant: the match has no arm for "mtl"
get_dependenciesNoMtl(m) ==
    LET found == UNION {IF Extension(path) \in {ExtGltf, ExtGlb, ExtObj}
                        THEN dependencies(m, path) ELSE {} : path \in Keys(m)}
    IN  {d \in found : ~contains_key(m, d)}

\* get_dependencies
get_dependencies(m) ==
    LET found == UNION {IF Extension(path) \in {ExtGltf, ExtGlb, ExtObj, ExtMtl}
                        THEN dependencies(m, path) ELSE {} : path \in Keys(m)}
    IN  {d \in found : ~contains_key(m, d)}

-----------------------------------------------------------------------------
(* load_async, load_async_single, load_urls, load_from_disk.               *)

\* how often a fetch of k was issued
Count(f, k) == IF k \in DOMAIN f THEN f[k] ELSE 0

Bump(f, S) ==
    [k \in DOMAIN f \cup S |-> IF k \in S THEN Min(Count(f, k) + 1, MaxCount) ELSE f[k]]

\* the results a fetch of path can have
Outcomes(path) == IF path \in missing THEN {"ok", "err"} ELSE {"ok"}

Urls(b) == {p \in b : ~is_data_url(p) /\ is_absolute_url(p)}
DataUrls(b) == {p \in b : is_data_url(p)}
LocalPaths(b) == {p \in b : ~is_data_url(p) /\ ~is_absolute_url(p)}

Finished(t) == t.st \in {"ok", "err"}

\* dropping a JoinSet aborts the tasks that have not finished
Dropped(tasks) ==
    [k \in DOMAIN tasks |->
        IF tasks[k].st \in {"ok", "err", "joined"} THEN tasks[k]
        ELSE [tasks[k] EXCEPT !.st = "aborted"]]

\* mutant: the error of a task is dropped and what was loaded so far is returned
ReturnOkPartial(e) ==
    /\ pc' = "done"
    /\ result' = Ok(extend(raw_assets, extend(urls_assets, disk_assets)))
    /\ url_tasks' = Dropped(url_tasks)
    /\ disk_tasks' = Dropped(disk_tasks)

\* load_async returns Err(e): both futures of try_join are dropped
ReturnErr(e) ==
    /\ pc' = "done"
    /\ result' = Err(e)
    /\ url_tasks' = Dropped(url_tasks)
    /\ disk_tasks' = Dropped(disk_tasks)

\* load_async_single up to the first suspension of try_join: the paths are
\* classified, load_urls parses every url and spawns its task, load_from_disk
\* spawns a task per path
StartRound ==
    /\ pc = "single"
    /\ round' = Min(round + 1, MaxRounds)
    /\ urls_assets' = EmptyAssets
    /\ disk_assets' = EmptyAssets
    /\ IF \E u \in Urls(batch) : BadUrl(u)
       THEN \* the spawn loop returns at the first bad url; the tasks spawned
            \* before it may have issued their request before they are dropped
            \E u \in {x \in Urls(batch) : BadUrl(x)} :
            \E S \in SUBSET {x \in Urls(batch) : ~BadUrl(x)} :
               /\ pc' = "done"
               /\ result' = Err(<<"FailedParsingUrl", u>>)
               /\ url_tasks' = [x \in S |-> [st |-> "aborted", host |-> UrlHost(x)]]
               /\ disk_tasks' = <<>>
               /\ fetches' = Bump(fetches, S)
               /\ UNCHANGED <<host_connections, failed>>
       ELSE /\ pc' = "join"
            /\ url_tasks' = [u \in Urls(batch) |-> [st |-> "waiting", host |-> UrlHost(u)]]
            /\ host_connections' = [h \in {UrlHost(u) : u \in Urls(batch)} |-> CONN_PER_HOST]
            /\ disk_tasks' = [p \in LocalPaths(batch) |-> [st |-> "spawned"]]
            /\ UNCHANGED <<fetches, failed, result>>
    /\ UNCHANGED <<batch, raw_assets>>
    /\ UNCHANGED storeVars
    /\ UNCHANGED worldVars

\* mutant: the task does not wait for a permit
AcquireAlways(free) == TRUE

\* Semaphore::acquire returns once a permit is free
Acquire(free) == free > 0

\* a url task gets a permit of its host's semaphore and sends the request
UrlAcquire(u) ==
    /\ pc = "join"
    /\ url_tasks[u].st = "waiting"
    /\ Acquire(host_connections[url_tasks[u].host])
    /\ host_connections' = [host_connections EXCEPT ![url_tasks[u].host] = @ - 1]
    /\ url_tasks' = [url_tasks EXCEPT ![u].st = "inflight"]
    /\ fetches' = Bump(fetches, {u})
    /\ UNCHANGED <<pc, batch, round, raw_assets, urls_assets, disk_assets, disk_tasks,
                   failed, result>>
    /\ UNCHANGED storeVars
    /\ UNCHANGED worldVars

\* the response body is read, or the request fails; the task ends and drops its permit
UrlRespond(u) ==
    /\ pc = "join"
    /\ url_tasks[u].st = "inflight"
    /\ host_connections' = [host_connections EXCEPT ![url_tasks[u].host] = @ + 1]
    /\ \E o \in Outcomes(u) :
          /\ url_tasks' = [url_tasks EXCEPT ![u].st = o]
          /\ failed' = IF o = "err" THEN failed \cup {u} ELSE failed
    /\ UNCHANGED <<pc, batch, round, raw_assets, urls_assets, disk_assets, disk_tasks,
                   fetches, result>>
    /\ UNCHANGED storeVars
    /\ UNCHANGED worldVars

\* the join loop of load_urls takes the result of a finished task
JoinUrl(u) ==
    /\ pc = "join"
    /\ Finished(url_tasks[u])
    /\ IF url_tasks[u].st = "ok"
       THEN /\ urls_assets' = insert(urls_assets, u, Body(u))
            /\ url_tasks' = [url_tasks EXCEPT ![u].st = "joined"]
            /\ UNCHANGED <<pc, result, disk_tasks>>
       ELSE /\ ReturnErr(<<"FailedLoadingUrl", u>>)
            /\ UNCHANGED urls_assets
    /\ UNCHANGED <<batch, round, raw_assets, disk_assets, host_connections, fetches, failed>>
    /\ UNCHANGED storeVars
    /\ UNCHANGED worldVars

\* a disk task starts tokio::fs::read
DiskStart(p) ==
    /\ pc = "join"
    /\ disk_tasks[p].st = "spawned"
    /\ disk_tasks' = [disk_tasks EXCEPT ![p].st = "reading"]
    /\ fetches' = Bump(fetches, {p})
    /\ UNCHANGED <<pc, batch, round, raw_assets, urls_assets, disk_assets, url_tasks,
                   host_connections, failed, result>>
    /\ UNCHANGED storeVars
    /\ UNCHANGED worldVars

\* the read returns the bytes or an io error
DiskFinish(p) ==
    /\ pc = "join"
    /\ disk_tasks[p].st = "reading"
    /\ \E o \in Outcomes(p) :
          /\ disk_tasks' = [disk_tasks EXCEPT ![p].st = o]
          /\ failed' = IF o = "err" THEN failed \cup {p} ELSE failed
    /\ UNCHANGED <<pc, batch, round, raw_assets, urls_assets, disk_assets, url_tasks,
                   host_connections, fetches, result>>
    /\ UNCHANGED storeVars
    /\ UNCHANGED worldVars

\* the join loop of load_from_disk takes the result of a finished task
JoinDisk(p) ==
    /\ pc = "join"
    /\ Finished(disk_tasks[p])
    /\ IF disk_tasks[p].st = "ok"
       THEN /\ disk_assets' = insert(disk_assets, p, Body(p))
            /\ disk_tasks' = [disk_tasks EXCEPT ![p].st = "joined"]
            /\ UNCHANGED <<pc, result, url_tasks>>
       ELSE /\ ReturnErr(<<"FailedLoading", p>>)
            /\ UNCHANGED disk_assets
    /\ UNCHANGED <<batch, round, raw_assets, urls_assets, host_connections, fetches, failed>>
    /\ UNCHANGED storeVars
    /\ UNCHANGED worldVars

\* parse_data_urls on a map: every data url decoded and inserted
parse_data_urls(data_urls, m) ==
    [x \in Keys(m) \cup data_urls |->
        IF x \in data_urls THEN parse_data_url(x).val ELSE m[x]]

\* mutant: "if" in place of "while", only the first round's dependencies are loaded
NextDependenciesOnce(acc, deps) ==
    IF acc = EmptyAssets THEN get_dependencies(deps) ELSE {}

\* mutant: inside the loop the scan reads load_async's raw_assets, before the round's
\* assets are merged into it
NextDependenciesStale(acc, deps) ==
    get_dependencies(IF acc = EmptyAssets THEN deps ELSE acc)

\* the dependencies of the next round, given load_async's raw_assets and the
\* assets deps of the round that just returned (the first round's assets are
\* raw_assets itself)
NextDependencies(acc, deps) == get_dependencies(deps)

\* mutant: the round ends as soon as one of the two fetchers is done
TryJoinEither ==
    \/ \A u \in DOMAIN url_tasks : url_tasks[u].st = "joined"
    \/ \A p \in DOMAIN disk_tasks : disk_tasks[p].st = "joined"

\* try_join! is ready with Ok: the join loops of load_urls and of load_from_disk have
\* taken the result of every task
TryJoinReady ==
    /\ \A u \in DOMAIN url_tasks : url_tasks[u].st = "joined"
    /\ \A p \in DOMAIN disk_tasks : disk_tasks[p].st = "joined"

\* mutant: the assets of the round are dropped instead of merged
MergedNever(acc, deps) == acc

\* load_async's raw_assets after the round: raw_assets.extend(deps) (the assets of
\* the first round are raw_assets itself)
Merged(acc, deps) == extend(acc, deps)

\* try_join has both results: load_async_single merges them and decodes the data
\* urls; load_async scans the round's assets for dependencies, extends raw_assets
\* and either returns or goes into the next round
FinishRound ==
    /\ pc = "join"
    /\ TryJoinReady
    /\ LET fetched == extend(extend(EmptyAssets, urls_assets), disk_assets)
           data_urls == DataUrls(batch)
           bad == {d \in data_urls : ~parse_data_url(d).ok}
       IN  IF bad # {}
           THEN \E d \in bad : \E S \in SUBSET (data_urls \ bad) :
                   /\ pc' = "done"
                   /\ result' = Err(parse_data_url(d).err)
                   /\ fetches' = Bump(fetches, S \cup {d})
                   /\ failed' = failed \cup {d}
                   /\ UNCHANGED <<batch, raw_assets>>
           ELSE LET deps == parse_data_urls(data_urls, fetched)
                    dependencies_ == NextDependencies(raw_assets, deps)
                IN  /\ raw_assets' = Merged(raw_assets, deps)
                    /\ fetches' = Bump(fetches, data_urls)
                    /\ UNCHANGED failed
                    /\ IF dependencies_ = {}
                       THEN /\ pc' = "done"
                            /\ result' = Ok(Merged(raw_assets, deps))
                            /\ UNCHANGED batch
                       ELSE /\ pc' = "single"
                            /\ batch' = dependencies_
                            /\ UNCHANGED result
    /\ UNCHANGED <<round, urls_assets, disk_assets, url_tasks, disk_tasks, host_connections>>
    /\ UNCHANGED storeVars
    /\ UNCHANGED worldVars

Next ==
    \/ StartRound
    \/ \E u \in DOMAIN url_tasks : UrlAcquire(u)
    \/ \E u \in DOMAIN url_tasks : UrlRespond(u)
    \/ \E u \in DOMAIN url_tasks : JoinUrl(u)
    \/ \E p \in DOMAIN disk_tasks : DiskStart(p)
    \/ \E p \in DOMAIN disk_tasks : DiskFinish(p)
    \/ \E p \in DOMAIN disk_tasks : JoinDisk(p)
    \/ FinishRound

Spec == Init /\ [][Next]_vars

\* the runtime keeps polling the tasks and the futures that can make progress
\* (checked on the loads of at most one path from sources that do not fail)
InitFair ==
    /\ refs \in Worlds
    /\ paths \in SmallSubsets(GraphKeys, 1)
    /\ missing = {}
    /\ corrupt = {}
    /\ bodies = <<>>
    /\ NoPeer
    /\ LoadCalled

FairSpec == InitFair /\ [][Next]_vars /\ WF_vars(Next)

\* the reference graphs without a cycle: every non-empty set of scene files has a
\* member that refers to none of the set
AcyclicWorlds ==
    {r \in Worlds : \A S \in SUBSET SceneKeys : S # {} => \E x \in S : r[x] \cap S = {}}

\* the loads of up to MaxPaths paths over an acyclic reference graph from sources
\* that do not fail, with the runtime polling whatever can make progress
InitFairLoads ==
    /\ refs \in AcyclicWorlds
    /\ paths \in SmallSubsets(GraphKeys, MaxPaths)
    /\ missing = {}
    /\ corrupt = {}
    /\ bodies = <<>>
    /\ NoPeer
    /\ LoadCalled

FairSpecLoads == InitFairLoads /\ [][Next]_vars /\ WF_vars(Next)

\* a load of more urls of one host than the host has permits
InitUrls ==
    /\ refs = <<>>
    /\ paths = ManyUrls
    /\ missing = {}
    /\ corrupt = {}
    /\ bodies = <<>>
    /\ NoPeer
    /\ LoadCalled

NextUrls ==
    \/ StartRound
    \/ \E u \in DOMAIN url_tasks : UrlAcquire(u)
    \/ \E u \in DOMAIN url_tasks : UrlRespond(u)
    \/ \E u \in DOMAIN url_tasks : JoinUrl(u)
    \/ FinishRound

SpecUrls == InitUrls /\ [][NextUrls]_vars

\* as many urls of host "1" as it has permits, and one url of host "2"
TwoHostUrls == {HostUrl("1", i) : i \in 1..CONN_PER_HOST} \cup {HostUrl("2", 1)}

InitHosts ==
    /\ refs = <<>>
    /\ paths = TwoHostUrls
    /\ missing = {}
    /\ corrupt = {}
    /\ bodies = <<>>
    /\ NoPeer
    /\ LoadCalled

SpecHosts == InitHosts /\ [][NextUrls]_vars

\* the same load when the request for the first url can fail, with the runtime
\* polling whatever can make progress
InitUrlsFail ==
    /\ refs = <<>>
    /\ paths = ManyUrls
    /\ missing = {HostUrl("1", 1)}
    /\ corrupt = {}
    /\ bodies = <<>>
    /\ NoPeer
    /\ LoadCalled

FairSpecUrls == InitUrlsFail /\ [][NextUrls]_vars /\ WF_vars(NextUrls)

\* ---- two load_urls calls running in one process ----

\* how many of the urls of host "1" the first call loads; the other call loads the rest
FirstShare == 5

FirstUrls == {HostUrl("1", i) : i \in 1..FirstShare}

\* the urls of the other call: together with FirstUrls one more than the host has permits
PeerUrls == {HostUrl("1", i) : i \in (FirstShare + 1)..(CONN_PER_HOST + 1)}

\* the other call enters load_urls: its own host_connections map, one task per url
PeerStart ==
    /\ peer_tasks = <<>>
    /\ peer_tasks' = [u \in PeerUrls |-> [st |-> "waiting", host |-> UrlHost(u)]]
    /\ peer_connections' = [h \in {UrlHost(u) : u \in PeerUrls} |-> CONN_PER_HOST]
    /\ UNCHANGED <<paths, refs, missing, corrupt, bodies>>
    /\ UNCHANGED loadVars
    /\ UNCHANGED storeVars

\* a task of the other call gets a permit of the semaphore in that call's map
PeerAcquire(u) ==
    /\ peer_tasks[u].st = "waiting"
    /\ Acquire(peer_connections[peer_tasks[u].host])
    /\ peer_connections' = [peer_connections EXCEPT ![peer_tasks[u].host] = @ - 1]
    /\ peer_tasks' = [peer_tasks EXCEPT ![u].st = "inflight"]
    /\ UNCHANGED <<paths, refs, missing, corrupt, bodies>>
    /\ UNCHANGED loadVars
    /\ UNCHANGED storeVars

\* its response is read or its request fails; the permit goes back
PeerRespond(u) ==
    /\ peer_tasks[u].st = "inflight"
    /\ peer_connections' = [peer_connections EXCEPT ![peer_tasks[u].host] = @ + 1]
    /\ \E o \in Outcomes(u) : peer_tasks' = [peer_tasks EXCEPT ![u].st = o]
    /\ UNCHANGED <<paths, refs, missing, corrupt, bodies>>
    /\ UNCHANGED loadVars
    /\ UNCHANGED storeVars

InitTwoLoads ==
    /\ refs = <<>>
    /\ paths = FirstUrls
    /\ missing = {}
    /\ corrupt = {}
    /\ bodies = <<>>
    /\ NoPeer
    /\ LoadCalled

NextTwoLoads ==
    \/ NextUrls
    \/ PeerStart
    \/ \E u \in DOMAIN peer_tasks : PeerAcquire(u)
    \/ \E u \in DOMAIN peer_tasks : PeerRespond(u)

SpecTwoLoads == InitTwoLoads /\ [][NextTwoLoads]_vars

\* ---- a load of urls whose servers answer with the bodies in `bodies` ----

HtmlUrls == {HostUrl("1", 1), HostUrl("2", 1)}

InitHtml ==
    /\ refs = <<>>
    /\ paths = HtmlUrls
    /\ missing = {}
    /\ corrupt = {}
    /\ bodies \in [HtmlUrls -> ResponseBodies]
    /\ NoPeer
    /\ LoadCalled

SpecHtml == InitHtml /\ [][NextUrls]_vars

\* ---- the wasm32 build: load_async_single and load_urls ----

\* base_path: the directory of the document's url
BasePath == <<"b", ":", "/", "/", "0">>

\* PathBuf::join: an absolute path replaces the base
PathJoin(base, p) == IF p # <<>> /\ p[1] = "/" THEN p ELSE base \o <<"/">> \o p

\* the urls load_async_single hands to load_urls: local paths are joined to the base
WasmUrls(b) == Urls(b) \cup {PathJoin(BasePath, p) : p \in LocalPaths(b)}

\* reqwest::Url::parse fails on a string without a scheme
WasmBadUrl(path) == Find(path, <<":", "/", "/">>) <= 0

\* load_async_single classifies the paths and enters load_urls
WasmStartRound ==
    /\ pc = "single"
    /\ pc' = "join"
    /\ round' = Min(round + 1, MaxRounds)
    /\ urls_assets' = EmptyAssets
    /\ disk_assets' = EmptyAssets
    /\ url_tasks' = [u \in WasmUrls(batch) |-> [st |-> "waiting", n |-> 0]]
    /\ disk_tasks' = <<>>
    /\ UNCHANGED <<batch, raw_assets, host_connections, fetches, failed, result>>
    /\ UNCHANGED storeVars
    /\ UNCHANGED worldVars

\* the first loop: the next url of the set is parsed and its request is sent; the
\* loop awaits the response before it goes on
WasmSend(u) ==
    /\ pc = "join"
    /\ url_tasks[u].st = "waiting"
    /\ \A x \in DOMAIN url_tasks : url_tasks[x].st # "inflight"
    /\ IF WasmBadUrl(u)
       THEN /\ pc' = "done"
            /\ result' = Err(<<"FailedParsingUrl", u>>)
            /\ UNCHANGED <<url_tasks, fetches>>
       ELSE /\ url_tasks' = [url_tasks EXCEPT ![u] =
                   [st |-> "inflight",
                    n |-> Cardinality({x \in DOMAIN url_tasks : url_tasks[x].st # "waiting"})]]
            /\ fetches' = Bump(fetches, {u})
            /\ UNCHANGED <<pc, result>>
    /\ UNCHANGED <<batch, round, raw_assets, urls_assets, disk_assets, disk_tasks,
                   host_connections, failed>>
    /\ UNCHANGED storeVars
    /\ UNCHANGED worldVars

\* send() resolves to a response or to an error; the handle is pushed
WasmSent(u) ==
    /\ pc = "join"
    /\ url_tasks[u].st = "inflight"
    /\ \E o \in Outcomes(u) :
          /\ url_tasks' = [url_tasks EXCEPT ![u].st = o]
          /\ failed' = IF o = "err" THEN failed \cup {u} ELSE failed
    /\ UNCHANGED <<pc, batch, round, raw_assets, urls_assets, disk_assets, disk_tasks,
                   host_connections, fetches, result>>
    /\ UNCHANGED storeVars
    /\ UNCHANGED worldVars

\* the second loop, in the order of the first: the body of the next handle is read,
\* its first 15 bytes are sliced and compared with the html header, and the bytes
\* are inserted; slicing a shorter body panics
WasmRead(u) ==
    /\ pc = "join"
    /\ \A x \in DOMAIN url_tasks : url_tasks[x].st \in {"ok", "err", "joined"}
    /\ Finished(url_tasks[u])
    /\ \A x \in DOMAIN url_tasks : Finished(url_tasks[x]) => url_tasks[u].n <= url_tasks[x].n
    /\ IF url_tasks[u].st = "err"
       THEN /\ pc' = "done"
            /\ result' = Err(<<"FailedLoadingUrlWithReqwest", u>>)
            /\ UNCHANGED <<urls_assets, url_tasks>>
       ELSE IF Len(bodies[u]) < Len(HtmlHeader)
       THEN /\ pc' = "panic"
            /\ UNCHANGED <<result, urls_assets, url_tasks>>
       ELSE IF SubSeq(bodies[u], 1, Len(HtmlHeader)) = HtmlHeader
       THEN /\ pc' = "done"
            /\ result' = Err(<<"FailedLoadingUrl", u, bodies[u]>>)
            /\ UNCHANGED <<urls_assets, url_tasks>>
       ELSE /\ urls_assets' = insert(urls_assets, u, Body(u))
            /\ url_tasks' = [url_tasks EXCEPT ![u].st = "joined"]
            /\ UNCHANGED <<pc, result>>
    /\ UNCHANGED <<batch, round, raw_assets, disk_assets, disk_tasks, host_connections,
                   fetches, failed>>
    /\ UNCHANGED storeVars
    /\ UNCHANGED worldVars

WasmPaths == {HostUrl("1", 1), <<"c">>}

InitWasm ==
    /\ refs = <<>>
    /\ paths = WasmPaths
    /\ missing \in {{}, {HostUrl("1", 1)}}
    /\ corrupt = {}
    /\ bodies \in [WasmUrls(WasmPaths) -> ResponseBodies]
    /\ NoPeer
    /\ LoadCalled

NextWasm ==
    \/ WasmStartRound
    \/ \E u \in DOMAIN url_tasks : WasmSend(u)
    \/ \E u \in DOMAIN url_tasks : WasmSent(u)
    \/ \E u \in DOMAIN url_tasks : WasmRead(u)
    \/ FinishRound

SpecWasm == InitWasm /\ [][NextWasm]_vars

\* mutant: without the reqwest feature the urls are skipped
load_urlsSkipped(urls) == Ok(EmptyAssets)

\* load_urls of a build without the reqwest feature
load_urlsNoReqwest(urls) ==
    IF urls # {} THEN Err(<<"FeatureMissing", "reqwest">>) ELSE Ok(EmptyAssets)

\* load_async_single up to the first suspension of try_join in a native build
\* without the reqwest feature: load_urls is polled first and is ready at once; on
\* its error try_join returns before load_from_disk is polled
StartRoundNoReqwest ==
    /\ pc = "single"
    /\ round' = Min(round + 1, MaxRounds)
    /\ disk_assets' = EmptyAssets
    /\ LET res == load_urlsNoReqwest(Urls(batch)) IN
       IF res.ok
       THEN /\ pc' = "join"
            /\ urls_assets' = res.val
            /\ disk_tasks' = [p \in LocalPaths(batch) |-> [st |-> "spawned"]]
            /\ UNCHANGED result
       ELSE /\ pc' = "done"
            /\ result' = res
            /\ urls_assets' = EmptyAssets
            /\ disk_tasks' = <<>>
    /\ url_tasks' = <<>>
    /\ UNCHANGED <<batch, raw_assets, host_connections, fetches, failed>>
    /\ UNCHANGED storeVars
    /\ UNCHANGED worldVars

NextNoReqwest ==
    \/ StartRoundNoReqwest
    \/ \E p \in DOMAIN disk_tasks : DiskStart(p)
    \/ \E p \in DOMAIN disk_tasks : DiskFinish(p)
    \/ \E p \in DOMAIN disk_tasks : JoinDisk(p)
    \/ FinishRound

SpecNoReqwest == Init /\ [][NextNoReqwest]_vars

\* the strings whose classification is explored
DataSep == <<"d", "a", "t", "a", ":", ",", ":", "/", "/">>
SepFirst == <<":", "/", "/", "x">>
SepTwice == <<":", "/", "/", ":", "/", "/">>
SlashFirst == <<"/", "/", "x">>
SlashInside == <<"a", "/", "/", "b">>
DataNoColon == <<"d", "a", "t", "a">>
DataNoComma == <<"d", "a", "t", "a", ":", "x">>

ClassifyKeys ==
    {KA, KC, KD, DataSep, SepFirst, SepTwice, SlashFirst, SlashInside, DataNoColon, DataNoComma}

\* nothing is referenced, or the glb file embeds a data uri that does not decode
ClassifyWorlds ==
    {[k \in SceneKeys |-> {}], [k \in SceneKeys |-> IF k = KC THEN {DataNoComma} ELSE {}]}

\* loads of strings of every kind
InitClassify ==
    /\ refs \in ClassifyWorlds
    /\ paths \in SmallSubsets(ClassifyKeys, MaxPaths)
    /\ missing = {k \in ClassifyKeys : ~is_data_url(k)}
    /\ corrupt = {}
    /\ bodies = <<>>
    /\ NoPeer
    /\ LoadCalled

SpecClassify == InitClassify /\ [][Next]_vars

\* loads in which one of the scene files is truncated or corrupt and every fetch succeeds
InitCorrupt ==
    /\ refs \in Worlds
    /\ paths \in SmallSubsets(GraphKeys, MaxPaths)
    /\ missing = {}
    /\ corrupt \in {S \in SUBSET SceneKeys : Cardinality(S) = 1}
    /\ bodies = <<>>
    /\ NoPeer
    /\ LoadCalled

SpecCorrupt == InitCorrupt /\ [][Next]_vars

-----------------------------------------------------------------------------
(* Claims about the store (checked under SpecStore).                       *)

IsLookup == last.op \in {"get", "remove"}

IsNotLoaded(res) == ~res.ok /\ res.err[1] = "NotLoaded"

\* C8: with only "tex.jpeg" stored, get and remove of "tex.jpg" return the bytes stored
\* under "tex.jpeg"; with only "tex.jpg" stored, a request for "tex.jpeg" returns its
\* bytes; "unrelated.jpg" with only "tex.jpeg" stored fails with NotLoaded.
C8_AliasResolution ==
    IsLookup =>
        /\ (Keys(last.before) = {TexJpeg} /\ last.path = TexJpg)
              => last.res = Ok(last.before[TexJpeg])
        /\ (Keys(last.before) = {TexJpg} /\ last.path = TexJpeg)
              => last.res = Ok(last.before[TexJpg])
        /\ (Keys(last.before) = {TexJpeg} /\ last.path = UnrelatedJpg)
              => IsNotLoaded(last.res)

C8_Witness ==
    /\ last.op = "remove"
    /\ Keys(last.before) = {TexJpeg}
    /\ last.path = TexJpg
    /\ last.res.ok
    /\ store = EmptyAssets

\* C9: a request equal to a stored key returns the bytes stored under that very key
\* (and remove takes out that very entry), also when other stored keys contain the
\* request as a substring.
C9_ExactMatchFirst ==
    (IsLookup /\ last.path \in Keys(last.before)) =>
        /\ last.res = Ok(last.before[last.path])
        /\ last.op = "remove" => store = Without(last.before, last.path)

C9_Witness ==
    /\ last.op = "get"
    /\ last.path = APng
    /\ {APng, DirAPng} \subseteq Keys(last.before)
    /\ last.before[APng] # last.before[DirAPng]
    /\ last.res = Ok(last.before[APng])

\* the request with a trailing ".jpeg" or ".jpg" replaced by ".jp"
CutToJp(path) ==
    IF EndsWith(path, DotJpeg)
    THEN SubSeq(path, 1, Len(path) - Len(DotJpeg)) \o <<".", "j", "p">>
    ELSE IF EndsWith(path, DotJpg)
    THEN SubSeq(path, 1, Len(path) - Len(DotJpg)) \o <<".", "j", "p">>
    ELSE path

Holders(m, probe) ==
    {k \in Keys(m) : \E i \in 1..(Len(k) + 1) :
        /\ i + Len(probe) - 1 <= Len(k)
        /\ \A j \in 1..Len(probe) : k[i + j - 1] = probe[j]}

\* C10: a request that equals no stored key succeeds exactly when some stored key
\* contains the probe (the request with ".jpeg"/".jpg" cut down to ".jp"), the bytes
\* returned are those of a stored key containing the probe, and several such keys
\* are not an error.
C10_SubstringProbe ==
    (IsLookup /\ last.path \notin Keys(last.before)) =>
        /\ last.res.ok <=> Holders(last.before, CutToJp(last.path)) # {}
        /\ last.res.ok =>
              \E k \in Holders(last.before, CutToJp(last.path)) : last.res.val = last.before[k]

C10_Witness ==
    /\ last.op = "get"
    /\ last.path = DotPng
    /\ Keys(last.before) = {APng, DirAPng, TexJpg}
    /\ last.before[APng] # last.before[DirAPng]
    /\ last.res = Ok(last.before[DirAPng])

\* C17: after insert(k, b) the store holds one entry for k, with bytes b, whatever
\* was stored under k before, and every other entry is as it was.
C17_InsertOverwrites ==
    last.op = "insert" =>
        /\ Keys(store) = Keys(last.before) \cup {last.path}
        /\ store[last.path] = last.bytes
        /\ \A k \in Keys(last.before) \ {last.path} : store[k] = last.before[k]

C17_Witness ==
    /\ last.op = "insert"
    /\ last.path = APng
    /\ Keys(last.before) = {APng, DirAPng}
    /\ last.before[APng] # last.bytes
    /\ store[APng] = last.bytes

\* the stored keys a request can resolve to: the request itself if it is stored,
\* otherwise the keys that contain the probe
Resolves(m, path) ==
    IF path \in Keys(m) THEN {path} ELSE Holders(m, CutToJp(path))

\* C18: after a successful remove the one entry the request resolved to, by exact or
\* by substring match, is gone, the bytes returned are those that were stored under
\* it, and every other entry is as it was (a failed remove changes nothing).
C18_RemoveFrame ==
    last.op = "remove" =>
        IF last.res.ok
        THEN \E k \in Resolves(last.before, last.path) :
                /\ last.res.val = last.before[k]
                /\ Keys(store) = Keys(last.before) \ {k}
                /\ \A x \in Keys(store) : store[x] = last.before[x]
        ELSE store = last.before

C18_Witness ==
    /\ last.op = "remove"
    /\ last.path = DotPng
    /\ Keys(last.before) = {APng, DirAPng, TexJpeg}
    /\ last.before[APng] # last.before[DirAPng]
    /\ last.res = Ok(last.before[DirAPng])
    /\ Keys(store) = {APng, TexJpeg}

\* C19: extend(other) leaves the store with every entry of other and every earlier
\* entry whose key is not a key of other, and other holds no entry afterwards.
C19_ExtendMerges ==
    last.op = "extend" =>
        /\ Keys(store) = Keys(last.before) \cup Keys(last.other)
        /\ \A k \in Keys(last.other) : store[k] = last.other[k]
        /\ \A k \in Keys(last.before) \ Keys(last.other) : store[k] = last.before[k]
        /\ Keys(last.rest) = {}

C19_Witness ==
    /\ last.op = "extend"
    /\ Keys(last.other) = {APng}
    /\ Keys(last.before) = {APng, TexJpg}
    /\ last.before[APng] # last.other[APng]
    /\ store[APng] = last.other[APng]

\* C11: when neither the exact lookup nor the substring probe finds a stored key, get
\* and remove fail with NotLoaded carrying the requested key as the caller gave it.
C11_NotLoadedNamesRequest ==
    (IsLookup /\ IsNotLoaded(last.res)) => last.res.err[2] = last.path

-----------------------------------------------------------------------------
(* Claims about load_async (checked under Spec, FairSpec and SpecUrls).    *)

\* the keys the content of k declares as dependencies
Declares(k) == IF k \in DOMAIN refs /\ k \notin corrupt THEN refs[k] ELSE {}

RECURSIVE Reachable(_)
\* the keys reachable from S along declared dependencies
Reachable(S) ==
    LET T == S \cup UNION {Declares(k) : k \in S}
    IN  IF T = S THEN S ELSE Reachable(T)

Returned == pc = "done"
ReturnedOk == pc = "done" /\ result.ok

\* a reference cycle can be reached from the request
HasCycle == \E k \in Reachable(paths) : k \in Reachable(Declares(k)) /\ Declares(k) # {k}

\* C1: for a reference graph with a cycle (A -> B -> A) and every fetch succeeding,
\* load_async terminates and returns a store whose key set is exactly the set of
\* keys reachable from the request.
C1_CycleTerminates ==
    HasCycle => <>(failed # {} \/ (ReturnedOk /\ Keys(result.val) = Reachable(paths)))

\* C2: after the first round no key of a round's batch is already in the store
\* accumulated by the earlier rounds, hence no key is fetched twice in one load.
C2_NoRefetch ==
    /\ (pc = "single" /\ round >= 1) => batch \cap Keys(raw_assets) = {}
    /\ \A k \in DOMAIN fetches : fetches[k] <= 1

\* C3: when load_async returns Ok, the store holds every requested key (a data url
\* under exactly its identifier, with its decoded payload) and, for every key it
\* holds, every key that key's content declares as a dependency.
C3_ClosedStore ==
    ReturnedOk =>
        /\ paths \subseteq Keys(result.val)
        /\ \A k \in paths : is_data_url(k) =>
              result.val[k] = [data |-> SubSeq(k, Find(k, <<",">>) + 2, Len(k))]
        /\ \A k \in Keys(result.val) : Declares(k) \subseteq Keys(result.val)

C3_Witness ==
    /\ ReturnedOk
    /\ paths = {KA, KD}
    /\ refs[KA] = {KB}
    /\ refs[KB] = {KC}
    /\ round = 3
    /\ Keys(result.val) = {KA, KB, KC, KD}

\* C4: once the fetch of a key has failed, in the first or in a later round, no
\* further round is started, and what load_async returns is the error of a failed
\* key and no store.
C4_FailFast ==
    failed # {} =>
        /\ pc # "single"
        /\ Returned =>
              /\ ~result.ok
              /\ "val" \notin DOMAIN result
              /\ result.err[1] \in {"FailedLoading", "FailedLoadingUrl"}
              /\ result.err[2] \in failed

C4_Witness ==
    /\ Returned
    /\ ~result.ok
    /\ round = 2
    /\ failed = {KB}
    /\ Keys(raw_assets) = {KA, KD}

InFlight(h) == {u \in DOMAIN url_tasks : url_tasks[u].st = "inflight" /\ url_tasks[u].host = h}

\* C5: the number of requests in flight to one host never exceeds 8.
C5_HostLimit ==
    \A h \in DOMAIN host_connections : Cardinality(InFlight(h)) <= 8

C5_Witness ==
    /\ Cardinality(InFlight(<<"1">>)) = 8
    /\ \E u \in DOMAIN url_tasks : url_tasks[u].st = "waiting" /\ url_tasks[u].host = <<"1">>

\* C6: when two requested keys both declare a dependency on the same third key,
\* that key is fetched exactly once during the load.
C6_SharedDependencyOnce ==
    \A a \in paths, b \in paths :
        \A c \in (Declares(a) \cap Declares(b)) \ paths :
            a # b =>
                /\ Count(fetches, c) <= 1
                /\ ReturnedOk => Count(fetches, c) = 1

\* the keys reachable from the request form a chain k1 -> k2 -> ... -> kn: one
\* requested key, every key refers to at most one key, and none leads back to itself
IsChain ==
    /\ Cardinality(paths) = 1
    /\ \A k \in Reachable(paths) :
          /\ Cardinality(Declares(k)) <= 1
          /\ k \notin Reachable(Declares(k))

\* C7: for a chain of n keys, each referring to the next only and the last to
\* nothing, load_async on the first key runs exactly n rounds and returns exactly
\* those n keys.
C7_ChainRounds ==
    (IsChain /\ failed = {}) =>
        /\ round <= Cardinality(Reachable(paths))
        /\ Returned =>
              /\ result.ok
              /\ round = Cardinality(Reachable(paths))
              /\ Keys(result.val) = Reachable(paths)

C7_Witness ==
    /\ ReturnedOk
    /\ paths = {KA}
    /\ refs[KA] = {KB}
    /\ refs[KB] = {KC}
    /\ refs[KC] = {}
    /\ round = 3
    /\ Keys(result.val) = {KA, KB, KC}

\* C12: a stored scene or material file whose bytes do not parse contributes no
\* dependency to the next round's batch, and the load, with every fetch succeeding,
\* still returns Ok with that key in the store.
C12_ResilientDiscovery ==
    /\ (pc = "single" /\ round >= 1) =>
          batch \subseteq UNION {refs[k] : k \in (Keys(raw_assets) \cap DOMAIN refs) \ corrupt}
    /\ Returned =>
          /\ result.ok
          /\ \A k \in corrupt : Count(fetches, k) >= 1 => k \in Keys(result.val)

C12_Witness ==
    /\ ReturnedOk
    /\ corrupt = {KB}
    /\ paths = {KA}
    /\ refs[KA] = {KB}
    /\ refs[KB] = {KC, KD}
    /\ round = 2
    /\ Keys(result.val) = {KA, KB}

\* the store a load of the request yields from stable sources: every reachable key
\* with the bytes of its source, a data url with its payload
StableStore ==
    [k \in Reachable(paths) |->
        IF is_data_url(k) THEN [data |-> SubSeq(k, Find(k, <<",">>) + 2, Len(k))]
        ELSE [src |-> k]]

\* C13: for stable sources the store of a successful load has the same keys and the
\* same bytes in whatever order the fetch tasks of each round complete: it is a
\* function of the request and the sources alone, so two loads return identical stores.
C13_OrderIndependent ==
    ReturnedOk => result.val = StableStore

C13_Witness ==
    /\ ReturnedOk
    /\ paths = {KA, KC}
    /\ refs[KA] = {KB}
    /\ refs[KC] = {KB, KD}
    /\ refs[KB] = {}
    /\ round = 2
    /\ DOMAIN url_tasks = {}
    /\ DOMAIN disk_tasks = {KB}
    /\ result.val = StableStore

BeginsData(p) ==
    Len(p) >= 5 /\ p[1] = "d" /\ p[2] = "a" /\ p[3] = "t" /\ p[4] = "a" /\ p[5] = ":"

SepAt(p, i) == i + 2 <= Len(p) /\ p[i] = ":" /\ p[i + 1] = "/" /\ p[i + 2] = "/"

\* p contains "://", and not at its beginning
SepNotFirst(p) == (\E i \in 1..Len(p) : SepAt(p, i)) /\ ~SepAt(p, 1)

BeginsSlashes(p) == Len(p) >= 2 /\ p[1] = "/" /\ p[2] = "/"

KindDataUri(p) == BeginsData(p)
KindAbsoluteUrl(p) == ~BeginsData(p) /\ (SepNotFirst(p) \/ BeginsSlashes(p))
KindLocalPath(p) == ~BeginsData(p) /\ ~SepNotFirst(p) /\ ~BeginsSlashes(p)

\* C14: every key of a batch is in exactly one of the three sub-batches: the data
\* uris if it begins with "data:" (tested first), otherwise the absolute urls if it
\* contains "://" not at position 0 or begins with "//", otherwise the local paths;
\* the sub-batches are pairwise disjoint and cover the batch, and the url and disk
\* tasks of the round are spawned for exactly the keys of their kind.
C14_Classification ==
    /\ DataUrls(batch) = {p \in batch : KindDataUri(p)}
    /\ Urls(batch) = {p \in batch : KindAbsoluteUrl(p)}
    /\ LocalPaths(batch) = {p \in batch : KindLocalPath(p)}
    /\ DataUrls(batch) \cap Urls(batch) = {}
    /\ DataUrls(batch) \cap LocalPaths(batch) = {}
    /\ Urls(batch) \cap LocalPaths(batch) = {}
    /\ DataUrls(batch) \cup Urls(batch) \cup LocalPaths(batch) = batch
    /\ pc = "join" =>
          /\ DOMAIN url_tasks = {p \in batch : KindAbsoluteUrl(p)}
          /\ DOMAIN disk_tasks = {p \in batch : KindLocalPath(p)}
    /\ ReturnedOk =>
          \A p \in paths : "data" \in DOMAIN result.val[p] <=> KindDataUri(p)

C14_Witness ==
    /\ ReturnedOk
    /\ paths = {DataSep, SepFirst}
    /\ DOMAIN url_tasks = {}
    /\ DOMAIN disk_tasks = {SepFirst}
    /\ result.val[DataSep] = [data |-> <<":", "/", "/">>]
    /\ result.val[SepFirst] = [src |-> SepFirst]

\* the data uris of b whose payload cannot be decoded (no comma ends the header)
Undecodable(b) == {d \in b : BeginsData(d) /\ \A i \in 1..Len(d) : d[i] # ","}

\* no fetch of the round failed and every url of the batch could be parsed
FetchesFine ==
    /\ failed \subseteq Undecodable(batch)
    /\ \A u \in batch : KindAbsoluteUrl(u) => UrlHost(u) # <<>>

FeatureMissing == Err(<<"FeatureMissing", "reqwest">>)

C16_WitnessUnaffected ==
    /\ ReturnedOk
    /\ paths = {KA, KD}
    /\ refs[KA] = {KB}
    /\ refs[KB] = {}
    /\ round = 2

\* the tasks of the round that have not delivered their result yet
Unjoined ==
    {u \in DOMAIN url_tasks : url_tasks[u].st # "joined"}
        \cup {p \in DOMAIN disk_tasks : disk_tasks[p].st # "joined"}

\* C20: in a fetch round the disk fetcher, the network fetcher and the data uri
\* decoder run concurrently, none waits for another to finish before it starts: a
\* spawned disk task can start its read and a url task with a free permit can send
\* its request whatever the others do, and while the round runs the decoder (which
\* runs in the step that ends the round) can take its step.
C20_ThreeFetchersConcurrent ==
    pc = "join" =>
        /\ \A p \in DOMAIN disk_tasks : disk_tasks[p].st = "spawned" => ENABLED DiskStart(p)
        /\ \A u \in DOMAIN url_tasks :
              (url_tasks[u].st = "waiting" /\ host_connections[url_tasks[u].host] > 0)
                  => ENABLED UrlAcquire(u)
        /\ DataUrls(batch) # {} => ENABLED FinishRound

\* C21: a task that has been issued runs to completion or failure: no step, and in
\* particular not the step in which the round reports the error of another task,
\* aborts a disk task that is reading or a url task whose request is in flight.
C21_IssuedTasksRunOn ==
    [][/\ \A p \in DOMAIN disk_tasks \cap DOMAIN disk_tasks' :
             disk_tasks[p].st = "reading" => disk_tasks'[p].st # "aborted"
       /\ \A u \in DOMAIN url_tasks \cap DOMAIN url_tasks' :
             url_tasks[u].st = "inflight" => url_tasks'[u].st # "aborted"]_vars

\* the bytes a stable source yields for key k
StableBytes(k) ==
    IF is_data_url(k) THEN [data |-> SubSeq(k, Find(k, <<",">>) + 2, Len(k))] ELSE [src |-> k]

\* the keys a task or the decoder of an earlier round was issued for
IssuedBefore == DOMAIN fetches \ (IF pc = "join" THEN batch ELSE {})

\* C22: no fetch task of round k+1 is issued before the fragment of round k is fully
\* merged: whenever a round is about to start or is running, everything the earlier
\* rounds fetched is in the accumulated store, with its bytes.
C22_RoundsInOrder ==
    pc \in {"single", "join"} =>
        \A k \in IssuedBefore : k \in Keys(raw_assets) /\ raw_assets[k] = StableBytes(k)

C22_Witness ==
    /\ pc = "join"
    /\ round = 2
    /\ paths = {KA, KD}
    /\ batch = {KB}
    /\ disk_tasks[KB].st = "reading"
    /\ Keys(raw_assets) = {KA, KD}

\* the step in which load_async scans the assets of a round for dependencies
ScanRuns == pc = "join" /\ (pc' = "single" \/ (pc' = "done" /\ result'.ok))

\* C23: the dependency scan of a round runs only after every fetch task of the round
\* has completed: in the step of the scan no url or disk task is outstanding and every
\* key of the batch, data uris included, is in the store the scan leaves behind.
C23_ScanAfterTasks ==
    [][ScanRuns =>
          /\ Unjoined = {}
          /\ \A k \in batch : k \in Keys(raw_assets') /\ raw_assets'[k] = StableBytes(k)]_vars

C23_Witness ==
    /\ pc = "single"
    /\ round = 1
    /\ paths = {KC, KD}
    /\ refs[KC] = {KA, KB}
    /\ batch = {KA, KB}
    /\ url_tasks[KC].st = "joined"
    /\ Keys(raw_assets) = {KC, KD}

\* no permit of a host is lost: as long as load_urls runs (its host_connections is a
\* local of the call), the free permits and the requests in flight add up to 8
PermitsConserved ==
    pc = "join" =>
        \A h \in DOMAIN host_connections :
            host_connections[h] + Cardinality(InFlight(h)) = CONN_PER_HOST

\* every url task of the round has had its permit and its request has ended
AllUrlTasksCompleted ==
    /\ pc # "single"
    /\ \A u \in DOMAIN url_tasks : url_tasks[u].st \in {"ok", "err", "joined"}

\* C24: a url task holds a permit of its host from before its request until the body
\* is read or the request fails, so no permit is ever lost, and, every request ending
\* in one way or the other, every url task of the round eventually gets a permit and
\* completes, also with more than 8 urls of one host.
C24_PermitsReturned ==
    /\ []PermitsConserved
    /\ <>AllUrlTasksCompleted

\* the host a url of the form scheme://host names
HostNamed(u) == SubSeq(u, 5, Len(u))

InFlightTo(h) == {u \in DOMAIN url_tasks : url_tasks[u].st = "inflight" /\ HostNamed(u) = h}

\* C25: a request to one host is never delayed by the throttle of another host: a
\* task that waits can acquire its permit whenever fewer than 8 requests are in
\* flight to its own host, also while 8 are in flight to a different host.
C25_HostsIndependent ==
    pc = "join" =>
        \A u \in DOMAIN url_tasks :
            (url_tasks[u].st = "waiting" /\ Cardinality(InFlightTo(HostNamed(u))) < CONN_PER_HOST)
                => ENABLED UrlAcquire(u)

C25_Witness ==
    /\ pc = "join"
    /\ Cardinality(InFlightTo(<<"1">>)) = CONN_PER_HOST
    /\ url_tasks[HostUrl("2", 1)].st = "inflight"
    /\ host_connections[<<"1">>] = 0

PeerInFlightTo(h) == {u \in DOMAIN peer_tasks : peer_tasks[u].st = "inflight" /\ HostNamed(u) = h}

\* C26: the limit of 8 requests in flight to one host holds across the load
\* operations running concurrently in the same process.
C26_ProcessWideLimit ==
    \A h \in {HostNamed(u) : u \in FirstUrls \cup PeerUrls} :
        Cardinality(InFlightTo(h)) + Cardinality(PeerInFlightTo(h)) <= CONN_PER_HOST

\* the server of u answers with a body that starts with the html document header
AnswersHtml(u) == u \in DOMAIN bodies /\ StartsWith(bodies[u], HtmlHeader)

\* C27: a response body that starts with "<!DOCTYPE html>" is never stored as the
\* bytes of its url, and a load that read such a body returns the fetch error naming
\* a url answered that way.
C27_HtmlBodyRejected ==
    /\ \A u \in DOMAIN bodies :
          AnswersHtml(u) => u \notin Keys(urls_assets) \cup Keys(raw_assets)
    /\ (Returned /\ \E u \in DOMAIN url_tasks : AnswersHtml(u) /\ url_tasks[u].st = "joined")
          => \E u \in DOMAIN bodies : AnswersHtml(u) /\ result = Err(<<"FailedLoadingUrl", u>>)

ShortBody(u) == u \in DOMAIN bodies /\ Len(bodies[u]) < Len(HtmlHeader)

\* C30: the html check never fails on a body shorter than the 15-byte header: the
\* load does not panic, and a short body that was read is stored under its key.
C30_ShortBodyStored ==
    /\ pc # "panic"
    /\ \A u \in DOMAIN url_tasks :
          (ShortBody(u) /\ url_tasks[u].st = "joined")
              => (u \in Keys(urls_assets) /\ urls_assets[u] = Body(u))

\* C28: get never changes the store, and a get or a remove that fails with NotLoaded
\* leaves every entry of the store as it was.
C28_LookupsPreserve ==
    /\ last.op = "get" => store = last.before
    /\ (IsLookup /\ IsNotLoaded(last.res)) => store = last.before

\* a get answered by substring match on a store of two entries
C28_Witness ==
    /\ last.op = "get"
    /\ last.path = DotPng
    /\ last.res.ok
    /\ Keys(store) = {APng, DirAPng}

\* a remove that fails on a store that holds an entry
C28_WitnessFailedRemove ==
    /\ last.op = "remove"
    /\ IsNotLoaded(last.res)
    /\ Keys(store) = {TexJpeg}

\* no key reachable from the request leads back to itself
Acyclic == \A k \in Reachable(paths) : k \notin Reachable(Declares(k))

RECURSIVE Depth(_, _)
\* the number of edges of the longest reference path that starts at k (n bounds the
\* recursion: a path of an acyclic graph visits no key twice)
Depth(k, n) ==
    IF n = 0 \/ Declares(k) = {} THEN 0
    ELSE LET below == {Depth(d, n - 1) : d \in Declares(k)}
         IN  1 + CHOOSE x \in below : \A y \in below : y <= x

\* L: the longest reference path that starts at a requested key
Longest ==
    IF paths = {} THEN 0
    ELSE LET from == {Depth(k, Cardinality(GraphKeys)) : k \in paths}
         IN  CHOOSE x \in from : \A y \in from : y <= x

\* C29: for an acyclic reference graph with every fetch succeeding, load_async
\* returns Ok, and never runs more than L+1 rounds, L being the number of edges of
\* the longest reference path that starts at a requested key.
C29_AcyclicRounds ==
    Acyclic => ([](round <= Longest + 1) /\ <>ReturnedOk)

\* two requested keys, the longer path a.obj -> b.mtl -> c.glb -> data:,d, loaded in
\* four rounds
C29_Witness ==
    /\ ReturnedOk
    /\ Acyclic
    /\ paths = {KA, KD}
    /\ Longest = 3
    /\ round = 4
    /\ Keys(result.val) = GraphKeys

====
